---- MODULE Spec2Model ----
(***************************************************************************)
(* State-machine model of the SQLite gateway in src/sqlite_mcp_server.py:  *)
(* the path resolver (get_db_path), the statement gateway (execute_query,  *)
(* execute_sql, create_table, optimize_database, backup_database,          *)
(* list_databases) and the schema inspector (get_schema).                  *)
(*                                                                         *)
(* Every tool is an `async def` without an await, so within one server     *)
(* process one call runs to its return without interleaving: in Spec each  *)
(* tool is one action.  The sqlite3 library is modelled by the operators   *)
(* connect, cursor_execute, connection_commit and connection_backup on an  *)
(* abstract file system.                                                   *)
(*                                                                         *)
(* SpecStatements is Spec with another set of statements for execute_sql.  *)
(* SpecConc is the same gateway run by two server processes on one sandbox *)
(* directory: there the calls of the two processes interleave statement by *)
(* statement and the engine's file locks decide who proceeds.              *)
(*                                                                         *)
(* Texts are sequences of tokens (a whitespace run is the token WS), paths *)
(* are sequences of components, a component is a sequence of pieces        *)
(* (<<"main", ".db">>), so that strip/upper/split, the path join, the stem *)
(* and the suffix are computed rather than assumed.                        *)
(***************************************************************************)
EXTENDS Integers, Sequences, FiniteSets, TLC

VARIABLES
    fs,         \* the file system: file path -> [present, tables]
    openConns,  \* connections opened by finished calls and never closed
    response,   \* what the last call returned (or the exception it raised)
    lastCall,   \* the last call: tool name and arguments
    opened,     \* number of sqlite3.connect calls the last call made
    issued,     \* statements the last call handed to cursor.execute, in order
    before,     \* the file system as it was when the last call began
    ncalls,     \* number of calls made so far
    callers,    \* SpecConc: each process's call, its position and its response
    applied     \* SpecConc: the statements written to main.db, in write order

seqVars == <<response, lastCall, opened, issued, before, ncalls>>

concVars == <<callers, applied>>

vars == <<fs, openConns, response, lastCall, opened, issued, before, ncalls,
          callers, applied>>

(***************************************************************************)
(* Bounds of the model.                                                    *)
(***************************************************************************)
MaxCalls == 3

\* SpecConc: the calls the two processes make in all
MaxOps == 3

(***************************************************************************)
(* SQLiteServerConfig.                                                     *)
(***************************************************************************)
data_dir == << <<"data">> >>

max_results == 1000

\* variant of allowed_operations that also lets VACUUM through
allowed_operations_WithVacuum ==
    <<"SELECT", "INSERT", "UPDATE", "DELETE", "CREATE", "DROP", "ALTER", "VACUUM">>

allowed_operations ==
    <<"SELECT", "INSERT", "UPDATE", "DELETE", "CREATE", "DROP", "ALTER">>

(***************************************************************************)
(* Paths.  pathlib's join: an absolute right operand replaces the left one.*)
(***************************************************************************)
ROOT == <<"/">>
PARENT == <<"..">>

IsAbsolute(p) == p # <<>> /\ p[1] = ROOT

JoinPath(base, other) == IF IsAbsolute(other) THEN other ELSE base \o other

get_db_path(database) == JoinPath(data_dir, database)

\* What the operating system opens for a path: ".." steps to the parent
\* (the parent of the root is the root), a relative path starts at the
\* working directory <<>>.
RECURSIVE ResolveFrom(_, _)
ResolveFrom(acc, p) ==
    IF p = <<>> THEN acc
    ELSE IF p[1] = PARENT
         THEN ResolveFrom(IF acc = <<>> \/ acc = <<ROOT>> THEN acc
                          ELSE SubSeq(acc, 1, Len(acc) - 1), Tail(p))
         ELSE ResolveFrom(Append(acc, p[1]), Tail(p))

Resolve(p) == ResolveFrom(<<>>, p)

ParentDir(p) == SubSeq(p, 1, Len(p) - 1)

IsPrefix(a, b) == Len(a) <= Len(b) /\ SubSeq(b, 1, Len(a)) = a

\* p names something strictly below the sandbox directory
UnderDataDir(p) ==
    LET r == Resolve(p) IN IsPrefix(Resolve(data_dir), r) /\ r # Resolve(data_dir)

\* Path.stem: the final component without its last suffix
Stem(p) == LET name == p[Len(p)] IN
           IF Len(name) > 1 THEN SubSeq(name, 1, Len(name) - 1) ELSE name

(***************************************************************************)
(* Statement texts: str.strip, str.upper, str.split on token sequences.    *)
(***************************************************************************)
WS == " "

UpperWord(w) ==
    CASE w = "select" -> "SELECT"
      [] w = "vacuum" -> "VACUUM"
      [] OTHER        -> w

RECURSIVE lstrip(_)
lstrip(q) == IF q # <<>> /\ q[1] = WS THEN lstrip(Tail(q)) ELSE q

RECURSIVE rstrip(_)
rstrip(q) == IF q # <<>> /\ q[Len(q)] = WS
             THEN rstrip(SubSeq(q, 1, Len(q) - 1)) ELSE q

strip(q) == rstrip(lstrip(q))

upper(q) == [i \in 1..Len(q) |-> UpperWord(q[i])]

IsWord(w) == w # WS

split(q) == SelectSeq(q, IsWord)

\* query.strip().upper().split(): element [0] of it is the leading keyword,
\* and taking it of the empty list raises IndexError
query_tokens(query) == split(upper(strip(query)))

InList(x, list) == \E i \in 1..Len(list) : list[i] = x

\* Python's None, the value of a column an INSERT leaves unset; integer
\* columns of the modelled tables are rowid aliases and are always set
None == "None"

(***************************************************************************)
(* The engine: what sqlite3 does with one statement on the tables of one   *)
(* database.  A table is [cols, rows]; rows are kept in rowid order.       *)
(***************************************************************************)
NoTables == [n \in {} |-> [cols |-> <<>>, rows |-> <<>>]]

EngineOk(tables, rows, rowcount, dml) ==
    [ok |-> TRUE, error_type |-> "", error |-> "", tables |-> tables,
     rows |-> rows, rowcount |-> rowcount, dml |-> dml]

EngineError(tables, error_type, error) ==
    [ok |-> FALSE, error_type |-> error_type, error |-> error, tables |-> tables,
     rows |-> <<>>, rowcount |-> -1, dml |-> FALSE]

\* an error of an INSERT, UPDATE or DELETE that was prepared: the
\* transaction that is begun ahead of such a statement is open
EngineAbort(x) == [x EXCEPT !.dml = TRUE]

IndexOf(ts, w) ==
    IF InList(w, ts) THEN CHOOSE i \in 1..Len(ts) : ts[i] = w /\ \A j \in 1..(i - 1) : ts[j] # w
    ELSE Len(ts) + 1

\* words the SQL grammar reserves: as a name they must be written quoted
Keywords == {"order"}

\* the name an identifier token denotes: a quoted identifier denotes the
\* text between its quotes
Unquote(w) == CASE w = "\"order\"" -> "order" [] OTHER -> w

\* a token the grammar does not accept where a name must stand
BadName(w) == w \in Keywords

\* column definitions "name type [PRIMARY KEY]" separated by ","
ColDefOk(d) == Len(d) = 2 \/ (Len(d) = 4 /\ d[3] = "PRIMARY" /\ d[4] = "KEY")

RECURSIVE ColDefs(_)
ColDefs(ts) ==
    IF ts = <<>> THEN <<>>
    ELSE LET n == IndexOf(ts, ",")
         IN <<SubSeq(ts, 1, n - 1)>> \o ColDefs(SubSeq(ts, n + 1, Len(ts)))

ParseCol(d) == [name |-> d[1], type |-> d[2], pk |-> Len(d) = 4]

ColNames(cols) == {cols[i].name : i \in 1..Len(cols)}

\* INTEGER PRIMARY KEY is an alias of the rowid and is assigned on insert
IsRowidAlias(col) == col.pk /\ col.type = "INTEGER"

AliasNames(cols) == {cols[i].name : i \in {j \in 1..Len(cols) : IsRowidAlias(cols[j])}}

\* rowid of the next row: one more than the largest, which is the last row's
NextRowid(table) ==
    LET n == Len(table.rows)
        alias == AliasNames(table.cols)
    IN IF n = 0 \/ alias = {} THEN n + 1
       ELSE table.rows[n][CHOOSE c \in alias : TRUE] + 1

\* the n rows an INSERT of the value v into column "v" makes: the rowid
\* alias gets consecutive rowids from `base`, other columns are left unset
NewRows(table, base, n, v) ==
    LET names == ColNames(table.cols)
        alias == AliasNames(table.cols)
    IN [k \in 1..n |->
          [c \in names |->
              IF c = "v" THEN v ELSE IF c \in alias THEN base + k - 1 ELSE None]]

NumLit(w) == CASE w = "1000" -> max_results [] w = "1001" -> max_results + 1 [] OTHER -> 1

NPlaceholders(ts) == Cardinality({i \in 1..Len(ts) : ts[i] = "?"})

BindingError(tables) ==
    EngineError(tables, "ProgrammingError", "Incorrect number of bindings supplied")

NoSuchTable(tables) == EngineError(tables, "OperationalError", "no such table")

SyntaxError(tables) == EngineError(tables, "OperationalError", "syntax error")

SetTable(tables, name, table) ==
    [n \in DOMAIN tables \cup {name} |-> IF n = name THEN table ELSE tables[n]]

DropTable(tables, name) == [n \in DOMAIN tables \ {name} |-> tables[n]]

\* CREATE TABLE [IF NOT EXISTS] name ( coldefs )
EngineCreate(tables, s) ==
    LET ine == Len(s) >= 5 /\ SubSeq(s, 3, 5) = <<"IF", "NOT", "EXISTS">>
        at == IF ine THEN 6 ELSE 3
    IN IF Len(s) < at + 3 \/ s[at + 1] # "(" \/ s[Len(s)] # ")"
       THEN SyntaxError(tables)
       ELSE LET defs == ColDefs(SubSeq(s, at + 2, Len(s) - 1))
            IN IF \E i \in 1..Len(defs) : ~ColDefOk(defs[i])
               THEN SyntaxError(tables)
               ELSE IF BadName(s[at]) THEN SyntaxError(tables)
               ELSE IF Unquote(s[at]) \in DOMAIN tables
               THEN IF ine THEN EngineOk(tables, <<>>, -1, FALSE)
                    ELSE EngineError(tables, "OperationalError", "table already exists")
               ELSE EngineOk(SetTable(tables, Unquote(s[at]),
                                      [cols |-> [i \in 1..Len(defs) |-> ParseCol(defs[i])],
                                       rows |-> <<>>]),
                             <<>>, -1, FALSE)

\* the value a text literal denotes
TextLit(w) == CASE w = "'a'" -> "a" [] w = "'b'" -> "b" [] w = "'x'" -> "x" [] OTHER -> w

\* INSERT INTO name ( v ) VALUES ( ? )
\* INSERT INTO name ( v ) WITH RECURSIVE c ( n ) AS ( SELECT 1 UNION ALL
\*   SELECT n+1 FROM c WHERE n < N ) SELECT 'x' FROM c
EngineInsertV(tables, s, params) ==
    LET single == Len(s) = 10 /\ SubSeq(s, 7, 10) = <<"VALUES", "(", "?", ")">>
        bulk == Len(s) = 31 /\ SubSeq(s, 7, 8) = <<"WITH", "RECURSIVE">>
        name == Unquote(s[3])
    IN IF ~(single \/ bulk) \/ BadName(s[3]) THEN SyntaxError(tables)
       ELSE IF name \notin DOMAIN tables THEN NoSuchTable(tables)
       ELSE IF "v" \notin ColNames(tables[name].cols)
       THEN EngineError(tables, "OperationalError", "table has no column named v")
       ELSE IF Len(params) # NPlaceholders(s) THEN EngineAbort(BindingError(tables))
       ELSE LET table == tables[name]
                base == NextRowid(table)
                n == IF single THEN 1 ELSE NumLit(s[26])
                added == NewRows(table, base, n, IF single THEN params[1] ELSE "x")
            IN EngineOk(SetTable(tables, name, [table EXCEPT !.rows = @ \o added]),
                        <<>>, n, TRUE)

\* the rows of `table` with one more row that gives the values id and v:
\* the value of a rowid alias is the row's rowid and places the row
AddRow(table, id, v) ==
    LET names == ColNames(table.cols)
        row == [c \in names |-> IF c = "id" THEN id ELSE IF c = "v" THEN v ELSE None]
        at == IF "id" \in AliasNames(table.cols)
              THEN Cardinality({i \in 1..Len(table.rows) : table.rows[i]["id"] < id})
              ELSE Len(table.rows)
    IN SubSeq(table.rows, 1, at) \o <<row>> \o SubSeq(table.rows, at + 1, Len(table.rows))

\* a row with this id breaks the uniqueness of the primary key
Conflicts(table, id) ==
    /\ "id" \in AliasNames(table.cols)
    /\ \E i \in 1..Len(table.rows) : table.rows[i]["id"] = id

\* the value tuples ( id , v ) of `ts`, in order, inserted one after the
\* other until one conflicts
RECURSIVE InsertEach(_, _, _)
InsertEach(table, ts, done) ==
    IF ts = <<>> THEN [table |-> table, done |-> done, failed |-> FALSE]
    ELSE LET id == NumLit(ts[2])
         IN IF Conflicts(table, id)
            THEN [table |-> table, done |-> done, failed |-> TRUE]
            ELSE InsertEach([table EXCEPT !.rows = AddRow(table, id, TextLit(ts[4]))],
                            SubSeq(ts, 7, Len(ts)), done + 1)

\* INSERT [OR FAIL] INTO name ( id , v ) VALUES ( 1 , 'a' ) , ( 1 , 'b' ) ...
\* A uniqueness conflict ends the statement with an error: the rows the
\* statement had inserted before it are undone, unless it says OR FAIL, and
\* the transaction the statement opened stays open either way.
EngineInsertRows(tables, s, params) ==
    LET orfail == SubSeq(s, 2, 3) = <<"OR", "FAIL">>
        r == IF orfail THEN <<s[1]>> \o SubSeq(s, 4, Len(s)) ELSE s
        name == Unquote(r[3])
        ts == SubSeq(r, 10, Len(r))
        shaped == /\ Len(r) >= 14
                  /\ r[2] = "INTO"
                  /\ r[9] = "VALUES"
                  /\ (Len(ts) + 1) % 6 = 0
                  /\ \A i \in 1..Len(ts) :
                        CASE i % 6 = 1 -> ts[i] = "("
                          [] i % 6 = 3 -> ts[i] = ","
                          [] i % 6 = 5 -> ts[i] = ")"
                          [] i % 6 = 0 -> ts[i] = ","
                          [] OTHER -> ts[i] \notin {"(", ")", ","}
    IN IF ~shaped \/ BadName(r[3]) THEN SyntaxError(tables)
       ELSE IF name \notin DOMAIN tables THEN NoSuchTable(tables)
       ELSE IF \E c \in {"id", "v"} : c \notin ColNames(tables[name].cols)
       THEN EngineError(tables, "OperationalError", "table has no column named")
       ELSE IF Len(params) # 0 THEN EngineAbort(BindingError(tables))
       ELSE LET res == InsertEach(tables[name], ts, 0)
            IN IF ~res.failed
               THEN EngineOk(SetTable(tables, name, res.table), <<>>, res.done, TRUE)
               ELSE EngineAbort(EngineError(IF orfail THEN SetTable(tables, name, res.table)
                                            ELSE tables,
                                            "IntegrityError", "UNIQUE constraint failed"))

EngineInsert(tables, s, params) ==
    IF Len(s) >= 6 /\ SubSeq(s, 2, 2) = <<"INTO">> /\ SubSeq(s, 4, 6) = <<"(", "v", ")">>
    THEN EngineInsertV(tables, s, params)
    ELSE IF Len(s) >= 8
            /\ \/ SubSeq(s, 4, 8) = <<"(", "id", ",", "v", ")">>
               \/ Len(s) >= 10 /\ SubSeq(s, 6, 10) = <<"(", "id", ",", "v", ")">>
    THEN EngineInsertRows(tables, s, params)
    ELSE SyntaxError(tables)

\* SELECT * FROM name   and   SELECT 1
EngineSelect(tables, s, params) ==
    IF s = <<"SELECT", "1">>
    THEN IF Len(params) # 0 THEN BindingError(tables)
         ELSE EngineOk(tables, <<[c \in {"1"} |-> 1]>>, -1, FALSE)
    ELSE IF Len(s) # 4 \/ SubSeq(s, 2, 3) # <<"*", "FROM">> \/ BadName(s[4])
    THEN SyntaxError(tables)
    ELSE IF Unquote(s[4]) \notin DOMAIN tables THEN NoSuchTable(tables)
    ELSE IF Len(params) # 0 THEN BindingError(tables)
    ELSE EngineOk(tables, tables[Unquote(s[4])].rows, -1, FALSE)

\* DELETE FROM name
EngineDelete(tables, s, params) ==
    IF Len(s) # 3 \/ s[2] # "FROM" \/ BadName(s[3]) THEN SyntaxError(tables)
    ELSE IF Unquote(s[3]) \notin DOMAIN tables THEN NoSuchTable(tables)
    ELSE IF Len(params) # 0 THEN EngineAbort(BindingError(tables))
    ELSE EngineOk(SetTable(tables, Unquote(s[3]),
                           [tables[Unquote(s[3])] EXCEPT !.rows = <<>>]),
                  <<>>, Len(tables[Unquote(s[3])].rows), TRUE)

\* the statistics table ANALYZE keeps: one row for each table that has rows,
\* giving the number of its rows as text
StatTable == "sqlite_stat1"

StatCols ==
    <<[name |-> "tbl", type |-> "", pk |-> FALSE],
      [name |-> "idx", type |-> "", pk |-> FALSE],
      [name |-> "stat", type |-> "", pk |-> FALSE]>>

RECURSIVE StatRows(_, _)
StatRows(tables, names) ==
    IF names = {} THEN <<>>
    ELSE LET n == CHOOSE m \in names : TRUE
         IN (IF tables[n].rows = <<>> THEN <<>>
             ELSE <<[tbl |-> n, idx |-> None, stat |-> ToString(Len(tables[n].rows))]>>)
            \o StatRows(tables, names \ {n})

\* the statistics without the rows about the table `name`
StatWithout(tables, name) ==
    IF StatTable \notin DOMAIN tables THEN tables
    ELSE SetTable(tables, StatTable,
                  [tables[StatTable] EXCEPT !.rows = SelectSeq(@, LAMBDA r : r.tbl # name)])

\* DROP TABLE name
EngineDrop(tables, s, params) ==
    IF Len(s) # 3 \/ s[2] # "TABLE" \/ BadName(s[3]) THEN SyntaxError(tables)
    ELSE IF Unquote(s[3]) \notin DOMAIN tables THEN NoSuchTable(tables)
    ELSE IF Len(params) # 0 THEN BindingError(tables)
    ELSE EngineOk(StatWithout(DropTable(tables, Unquote(s[3])), Unquote(s[3])),
                  <<>>, -1, FALSE)

\* VACUUM rebuilds the file and leaves the tables as they are; ANALYZE
\* writes the statistics table, creating it when it is not there
EngineMaintenance(tables, s, params) ==
    IF Len(s) # 1 THEN SyntaxError(tables)
    ELSE IF Len(params) # 0 THEN BindingError(tables)
    ELSE IF s[1] = "VACUUM" THEN EngineOk(tables, <<>>, -1, FALSE)
    ELSE EngineOk(SetTable(tables, StatTable,
                           [cols |-> StatCols,
                            rows |-> StatRows(tables, DOMAIN tables \ {StatTable})]),
                  <<>>, -1, FALSE)

\* cursor.execute(query[, params]) on a connection that sees `tables`: the
\* statement is prepared (syntax, names), its parameters are bound, it runs.
\* SQL keywords are case-insensitive; the empty statement does nothing.
cursor_execute(tables, query, params) ==
    LET ws == split(query)
        s == IF ws = <<>> THEN ws ELSE <<UpperWord(ws[1])>> \o Tail(ws)
    IN IF s = <<>>
       THEN IF Len(params) # 0 THEN BindingError(tables)
            ELSE EngineOk(tables, <<>>, -1, FALSE)
       ELSE CASE s[1] = "SELECT" -> EngineSelect(tables, s, params)
              [] s[1] = "INSERT" -> EngineInsert(tables, s, params)
              [] s[1] = "DELETE" -> EngineDelete(tables, s, params)
              [] s[1] = "CREATE" -> EngineCreate(tables, s)
              [] s[1] = "DROP"   -> EngineDrop(tables, s, params)
              [] s[1] \in {"VACUUM", "ANALYZE"} -> EngineMaintenance(tables, s, params)
              [] OTHER -> SyntaxError(tables)

(***************************************************************************)
(* The file system and sqlite3 connections.                                *)
(***************************************************************************)
MainDb == <<"main", ".db">>

\* the directories that exist: the working directory, the sandbox (created
\* by SQLiteServerConfig), the root and /tmp; the component makes no other
Dirs == {<<>>, data_dir, <<ROOT>>, <<ROOT, <<"tmp">>>>}

\* database names callers supply (pathlib parts of the string)
DbNames ==
    { <<MainDb>>,
      <<PARENT, <<"evil", ".db">>>>,
      <<<<"nodir">>, <<"x", ".db">>>> }

\* explicit backup destinations callers supply; <<>> is "not given".  A
\* destination that names the source itself is an input of SpecConc: that
\* call does not return.
BackupPaths ==
    { <<>>,
      <<ROOT, <<"tmp">>, <<"abs", ".db">>>>,
      <<<<"nodir">>, <<"b", ".db">>>> }

\* datetime.now() in the two formats the code uses
Timestamps == {[stamp |-> "20261102_120000", iso |-> "2026-11-02T12:00:00"]}

DefaultBackupPath(source_path, now) ==
    data_dir \o <<Stem(source_path) \o <<"_backup_", now.stamp, ".db">>>>

AllFiles ==
    {Resolve(get_db_path(n)) : n \in DbNames}
      \cup {Resolve(p) : p \in BackupPaths \ {<<>>}}
      \cup {Resolve(DefaultBackupPath(get_db_path(n), now)) : n \in DbNames, now \in Timestamps}

Absent == [present |-> FALSE, tables |-> NoTables]

EmptyFile == [present |-> TRUE, tables |-> NoTables]

\* variant of Exists that looks at the directory instead of the file
Exists_OfDirectory(fsys, path) == ParentDir(Resolve(path)) \in Dirs

\* Path.exists()
Exists(fsys, path) ==
    LET file == Resolve(path)
    IN file \in Dirs \/ (file \in DOMAIN fsys /\ fsys[file].present)

\* sqlite3.connect(path): opens the file, creating it empty when it is not
\* there; fails when its directory does not exist or it is a directory
connect(fsys, path) ==
    LET file == Resolve(path)
    IN IF ParentDir(file) \in Dirs /\ file \notin Dirs /\ file \in DOMAIN fsys
       THEN [ok |-> TRUE, error_type |-> "", error |-> "", file |-> file,
             fs |-> IF fsys[file].present THEN fsys
                    ELSE [fsys EXCEPT ![file] = EmptyFile]]
       ELSE [ok |-> FALSE, error_type |-> "OperationalError",
             error |-> "unable to open database file", file |-> file, fs |-> fsys]

\* what a finished statement leaves in the file: INSERT, UPDATE and DELETE
\* open a transaction (the change stays in the connection), every other
\* statement is written through at once
statement_effect(fsys, file, x) ==
    IF x.ok /\ ~x.dml THEN [fsys EXCEPT ![file].tables = x.tables] ELSE fsys

\* variant of connection_commit that leaves the transaction uncommitted
connection_commit_Dropped(fsys, conn) == fsys

\* conn.commit(), also called by the connection's __exit__ on success
connection_commit(fsys, conn) ==
    IF conn.in_transaction THEN [fsys EXCEPT ![conn.file].tables = conn.tables]
    ELSE fsys

\* variant of connection_rollback that writes the open transaction out
connection_rollback_Committing(fsys, conn) == connection_commit(fsys, conn)

\* the connection's __exit__ on an exception: the open transaction is
\* dropped, the file keeps what it held
connection_rollback(fsys, conn) == fsys

Failure(e) == [success |-> FALSE, error |-> <<e.error>>, error_type |-> e.error_type]

Raise(exc) == [exception |-> exc]

Raised(r) == "exception" \in DOMAIN r

Outcome(fsys, result, nopened, nleaked, stmts) ==
    [fs |-> fsys, result |-> result, opened |-> nopened, leaked |-> nleaked,
     issued |-> stmts]

Min(a, b) == IF a <= b THEN a ELSE b

\* variant of select_result that counts the rows after cutting them off
select_result_CountAfterCap(results) ==
    LET data == SubSeq(results, 1, Min(Len(results), max_results))
    IN [success |-> TRUE, data |-> data, row_count |-> Len(data),
        truncated |-> Len(data) > max_results]

\* the response to a SELECT: all rows are fetched and counted, then cut off
\* at max_results
select_result(results) ==
    [success |-> TRUE,
     data |-> SubSeq(results, 1, Min(Len(results), max_results)),
     row_count |-> Len(results),
     truncated |-> Len(results) > max_results]

\* the response to any other statement
write_result(rowcount) ==
    [success |-> TRUE,
     message |-> "Query executed successfully",
     rows_affected |-> rowcount]

(***************************************************************************)
(* execute_query.  `with sqlite3.connect(...) as conn` commits or rolls    *)
(* back on exit and does not close: the connection stays open when the     *)
(* function returns (leaked = 1) until the collector finalizes it.         *)
(***************************************************************************)
execute_query(fsys, database, query, params) ==
    LET db_path == get_db_path(database)
        c == connect(fsys, db_path)
    IN IF ~c.ok THEN Outcome(c.fs, Failure(c), 0, 0, <<>>)
       ELSE
       LET x == cursor_execute(c.fs[c.file].tables, query, params)
           conn == [file |-> c.file, tables |-> x.tables,
                    in_transaction |-> x.dml]
           fs1 == statement_effect(c.fs, c.file, x)
           stmts == <<[file |-> c.file, query |-> query]>>
           toks == query_tokens(query)
       IN IF ~x.ok
          THEN Outcome(connection_rollback(fs1, conn), Failure(x), 1, 1, stmts)
          ELSE IF toks = <<>>
          THEN Outcome(connection_rollback(fs1, conn), Raise("IndexError"), 1, 1, stmts)
          ELSE IF toks[1] = "SELECT"
          THEN Outcome(connection_commit(fs1, conn), select_result(x.rows), 1, 1, stmts)
          ELSE Outcome(connection_commit(fs1, conn), write_result(x.rowcount), 1, 1, stmts)

(***************************************************************************)
(* execute_sql: the allow-list check, then execute_query.                  *)
(***************************************************************************)
\* variant of execute_sql without the allow-list check
execute_sql_Unchecked(fsys, database, query, params, now) ==
    LET toks == query_tokens(query)
    IN IF toks = <<>> THEN Outcome(fsys, Raise("IndexError"), 0, 0, <<>>)
       ELSE LET out == execute_query(fsys, database, query, params)
            IN IF Raised(out.result) THEN out
               ELSE [out EXCEPT !.result =
                        [database |-> database, timestamp |-> now.iso] @@ @]

execute_sql(fsys, database, query, params, now) ==
    LET toks == query_tokens(query)
    IN IF toks = <<>> THEN Outcome(fsys, Raise("IndexError"), 0, 0, <<>>)
       ELSE IF ~InList(toks[1], allowed_operations)
       THEN Outcome(fsys,
                    [success |-> FALSE,
                     error |-> <<"Operation", toks[1], "not allowed">>],
                    0, 0, <<>>)
       ELSE LET out == execute_query(fsys, database, query, params)
            IN IF Raised(out.result) THEN out
               ELSE [out EXCEPT !.result =
                        [database |-> database, timestamp |-> now.iso] @@ @]

(***************************************************************************)
(* create_table: builds CREATE TABLE IF NOT EXISTS and hands it to         *)
(* execute_query (not to execute_sql).  `columns` is the dict in insertion *)
(* order, a sequence of <<name, type>>; primary_key "" is "not given".     *)
(***************************************************************************)
column_def(col, primary_key) ==
    IF primary_key # "" /\ col[1] = primary_key
    THEN <<col[1], col[2], "PRIMARY", "KEY">>
    ELSE <<col[1], col[2]>>

\* ', '.join(column_defs)
RECURSIVE join_defs(_)
join_defs(defs) ==
    IF defs = <<>> THEN <<>>
    ELSE IF Len(defs) = 1 THEN defs[1]
    ELSE defs[1] \o <<",">> \o join_defs(Tail(defs))

create_query(table_name, columns, primary_key) ==
    <<"CREATE", "TABLE", "IF", "NOT", "EXISTS", table_name, "(">>
      \o join_defs([i \in 1..Len(columns) |-> column_def(columns[i], primary_key)])
      \o <<")">>

create_table(fsys, database, table_name, columns, primary_key) ==
    execute_query(fsys, database, create_query(table_name, columns, primary_key), <<>>)

(***************************************************************************)
(* optimize_database: VACUUM, then ANALYZE, both through execute_query;    *)
(* the response's success is the literal True.                             *)
(***************************************************************************)
optimize_database(fsys, database, now) ==
    LET vacuum == execute_query(fsys, database, <<"VACUUM">>, <<>>)
        analyze == execute_query(vacuum.fs, database, <<"ANALYZE">>, <<>>)
    IN Outcome(analyze.fs,
               [success |-> TRUE,
                message |-> "Database optimization completed",
                operations |-> <<[operation |-> "VACUUM", result |-> vacuum.result],
                                 [operation |-> "ANALYZE", result |-> analyze.result]>>,
                timestamp |-> now.iso],
               vacuum.opened + analyze.opened,
               vacuum.leaked + analyze.leaked,
               vacuum.issued \o analyze.issued)

(***************************************************************************)
(* backup_database.  The two connections are closed by hand on the success *)
(* path only; `except Exception` turns any failure into a response.        *)
(***************************************************************************)
\* source_conn.backup(backup_conn): the destination becomes a copy of the source
connection_backup(fsys, source_file, backup_file) ==
    [fsys EXCEPT ![backup_file].tables = fsys[source_file].tables]

backup_database(fsys, source_db, backup_path_arg, now) ==
    LET source_path == get_db_path(source_db)
        backup_path == IF backup_path_arg = <<>>
                       THEN DefaultBackupPath(source_path, now)
                       ELSE backup_path_arg
    IN IF ~Exists(fsys, source_path)
       THEN Outcome(fsys,
                    [success |-> FALSE,
                     error |-> <<"Source database", "does not exist">>],
                    0, 0, <<>>)
       ELSE LET source_conn == connect(fsys, source_path)
            IN IF ~source_conn.ok
               THEN Outcome(source_conn.fs, Failure(source_conn), 0, 0, <<>>)
               ELSE LET backup_conn == connect(source_conn.fs, backup_path)
                    IN IF ~backup_conn.ok
                       THEN Outcome(backup_conn.fs, Failure(backup_conn), 1, 1, <<>>)
                       ELSE Outcome(connection_backup(backup_conn.fs, source_conn.file,
                                                      backup_conn.file),
                                    [success |-> TRUE,
                                     message |-> "Database backed up successfully",
                                     backup_path |-> backup_path,
                                     timestamp |-> now.iso],
                                    2, 0, <<>>)

(***************************************************************************)
(* list_databases: config.data_dir.glob("*.db").                           *)
(***************************************************************************)
\* variant of GlobDb that takes the .db files of every directory
GlobDb_Anywhere(fsys) ==
    {f \in DOMAIN fsys :
        /\ fsys[f].present
        /\ LET name == f[Len(f)] IN name[Len(name)] = ".db"}

\* the files directly in the sandbox directory whose name ends in .db
GlobDb(fsys) ==
    {f \in DOMAIN fsys :
        /\ fsys[f].present
        /\ ParentDir(f) = Resolve(data_dir)
        /\ LET name == f[Len(f)] IN name[Len(name)] = ".db"}

\* the directory listing, in the order the operating system gives it
RECURSIVE Listing(_)
Listing(files) ==
    IF files = {} THEN <<>>
    ELSE LET f == CHOOSE g \in files : TRUE
         IN <<[name |-> f[Len(f)], path |-> f]>> \o Listing(files \ {f})

list_databases(fsys) ==
    LET databases == Listing(GlobDb(fsys))
    IN Outcome(fsys,
               [success |-> TRUE, databases |-> databases, count |-> Len(databases)],
               0, 0, <<>>)

(***************************************************************************)
(* get_schema.  table_name "" is "not given".  The table enumeration and   *)
(* the per-table PRAGMA and row-count reads run on one connection and     *)
(* change nothing; `issued` records the enumeration that starts them.      *)
(***************************************************************************)
\* PRAGMA table_info(table): one descriptor per column, in declaration order
table_info(table) ==
    [i \in 1..Len(table.cols) |->
        [name |-> table.cols[i].name, type |-> table.cols[i].type,
         not_null |-> FALSE, default_value |-> None,
         primary_key |-> table.cols[i].pk]]

\* PRAGMA index_list(table): a rowid table whose key is INTEGER PRIMARY KEY,
\* or that has no key, has no index
index_list(table) == <<>>

schema_tables(tables, table_name) ==
    IF table_name # "" THEN DOMAIN tables \cap {table_name}
    ELSE DOMAIN tables \ {"sqlite_sequence"}

\* the three reads about one table: PRAGMA table_info, PRAGMA index_list
\* and the row count.  The table's name is pasted into their text as it
\* is, unquoted, so the engine rejects them when the name is a reserved word
describe_table(tables, name) ==
    IF BadName(name) THEN SyntaxError(tables)
    ELSE EngineOk(tables,
                  <<[columns |-> table_info(tables[name]),
                     indexes |-> index_list(tables[name]),
                     row_count |-> Len(tables[name].rows)]>>,
                  -1, FALSE)

get_schema(fsys, database, table_name) ==
    LET db_path == get_db_path(database)
    IN IF ~Exists(fsys, db_path)
       THEN Outcome(fsys,
                    [success |-> FALSE,
                     error |-> <<"Database", "does not exist">>],
                    0, 0, <<>>)
       ELSE LET c == connect(fsys, db_path)
            IN IF ~c.ok THEN Outcome(c.fs, Failure(c), 0, 0, <<>>)
               ELSE LET tables == c.fs[c.file].tables
                        names == schema_tables(tables, table_name)
                        stmts == <<[file |-> c.file,
                                    query |-> <<"SELECT", "name", "FROM", "sqlite_master">>]>>
                    IN IF \E n \in names : ~describe_table(tables, n).ok
                       THEN Outcome(c.fs, Failure(SyntaxError(tables)), 1, 1, stmts)
                       ELSE Outcome(c.fs,
                                    [success |-> TRUE, database |-> database,
                                     tables |-> [n \in names |->
                                                   describe_table(tables, n).rows[1]]],
                                    1, 1, stmts)

(***************************************************************************)
(* Inputs.                                                                 *)
(***************************************************************************)
CreateT ==
    <<"CREATE", "TABLE", "t", "(", "id", "INTEGER", "PRIMARY", "KEY", ",",
      "v", "TEXT", ")">>

InsertOne == <<"INSERT", "INTO", "t", "(", "v", ")", "VALUES", "(", "?", ")">>

InsertMany(n) ==
    <<"INSERT", "INTO", "t", "(", "v", ")", "WITH", "RECURSIVE", "c", "(", "n", ")",
      "AS", "(", "SELECT", "1", "UNION", "ALL", "SELECT", "n+1", "FROM", "c",
      "WHERE", "n", "<", n, ")", "SELECT", "'x'", "FROM", "c">>

SelectAll == <<"SELECT", "*", "FROM", "t">>

\* a table whose name is a reserved word, written quoted
CreateOrder ==
    <<"CREATE", "TABLE", "\"order\"", "(", "id", "INTEGER", "PRIMARY", "KEY", ",",
      "name", "TEXT", ")">>

\* two rows with the same key: the second one conflicts with the first
InsertDup ==
    <<"INSERT", "INTO", "t", "(", "id", ",", "v", ")", "VALUES",
      "(", "1", ",", "'a'", ")", ",", "(", "1", ",", "'b'", ")">>

InsertDupOrFail ==
    <<"INSERT", "OR", "FAIL", "INTO", "t", "(", "id", ",", "v", ")", "VALUES",
      "(", "1", ",", "'a'", ")", ",", "(", "1", ",", "'b'", ")">>

TableNames == {"t"}

\* the columns create_table is called with
Columns == <<<<"id", "INTEGER">>, <<"v", "TEXT">>>>

\* the statements callers send, each with the bind values sent with it
Requests ==
    { [query |-> CreateT, params |-> <<>>],
      [query |-> InsertOne, params |-> <<"x">>],
      [query |-> InsertOne, params |-> <<>>],
      [query |-> InsertMany("1000"), params |-> <<>>],
      [query |-> InsertMany("1001"), params |-> <<>>],
      [query |-> SelectAll, params |-> <<>>],
      [query |-> <<WS, "select", "1", WS>>, params |-> <<>>],
      [query |-> <<"DELETE", "FROM", "t">>, params |-> <<>>],
      [query |-> <<"DROP", "TABLE", "t">>, params |-> <<>>],
      [query |-> <<"vacuum">>, params |-> <<>>],
      [query |-> <<WS>>, params |-> <<>>] }

\* SpecStatements: statements on small tables, among them a table whose
\* name must be quoted and inserts that break the primary key
StatementRequests ==
    { [query |-> CreateT, params |-> <<>>],
      [query |-> CreateOrder, params |-> <<>>],
      [query |-> InsertOne, params |-> <<"x">>],
      [query |-> InsertOne, params |-> <<>>],
      [query |-> InsertDup, params |-> <<>>],
      [query |-> InsertDupOrFail, params |-> <<>>],
      [query |-> SelectAll, params |-> <<>>],
      [query |-> <<"DELETE", "FROM", "t">>, params |-> <<>>],
      [query |-> <<"DROP", "TABLE", "t">>, params |-> <<>>] }

(***************************************************************************)
(* The state machine.                                                      *)
(***************************************************************************)
NoCall == [tool |-> "none"]

\* the two server processes of SpecConc
Callers == {"A", "B"}

\* a connection: the file it is on, the tables as it sees them, whether it
\* has a transaction open and whether it holds the file's write lock
NoConn == [file |-> <<>>, tables |-> NoTables, in_transaction |-> FALSE, locked |-> FALSE]

\* a process between calls.  pc is its position in the call req (at "idle"
\* the call has returned), result the response of the call, attempts the
\* number of times the call handed its statement to cursor.execute, ops the
\* number of calls the process has made; seen collects what the source held
\* at any time of a backup call, copy is what the backup wrote, stuck tells
\* that the backup waits for a lock of its own
Idle ==
    [pc |-> "idle", req |-> NoCall, conn |-> NoConn, result |-> [success |-> TRUE],
     attempts |-> 0, ops |-> 0, seen |-> {}, copy |-> NoTables, stuck |-> FALSE]

Init ==
    /\ fs = [f \in AllFiles |-> Absent]
    /\ openConns = 0
    /\ response = [success |-> TRUE]
    /\ lastCall = NoCall
    /\ opened = 0
    /\ issued = <<>>
    /\ before = [f \in AllFiles |-> Absent]
    /\ ncalls = 0
    /\ callers = [p \in Callers |-> Idle]
    /\ applied = <<>>

Finish(call, out) ==
    /\ fs' = out.fs
    /\ openConns' = openConns + out.leaked
    /\ response' = out.result
    /\ lastCall' = call
    /\ opened' = out.opened
    /\ issued' = out.issued
    /\ before' = fs
    /\ ncalls' = ncalls + 1
    /\ UNCHANGED concVars

ExecuteSql ==
    /\ ncalls < MaxCalls
    /\ \E database \in DbNames, req \in Requests, now \in Timestamps :
          Finish([tool |-> "execute_sql", database |-> database,
                  query |-> req.query, params |-> req.params],
                 execute_sql(fs, database, req.query, req.params, now))

CreateTable ==
    /\ ncalls < MaxCalls
    /\ \E database \in DbNames, table_name \in TableNames, primary_key \in {"", "id"} :
          Finish([tool |-> "create_table", database |-> database,
                  table_name |-> table_name, primary_key |-> primary_key],
                 create_table(fs, database, table_name, Columns, primary_key))

GetSchema ==
    /\ ncalls < MaxCalls
    /\ \E database \in DbNames, table_name \in TableNames \cup {""} :
          Finish([tool |-> "get_schema", database |-> database,
                  table_name |-> table_name],
                 get_schema(fs, database, table_name))

BackupDatabase ==
    /\ ncalls < MaxCalls
    /\ \E source_db \in DbNames, backup_path \in BackupPaths, now \in Timestamps :
          Finish([tool |-> "backup_database", source_db |-> source_db,
                  backup_path |-> backup_path],
                 backup_database(fs, source_db, backup_path, now))

ListDatabases ==
    /\ ncalls < MaxCalls
    /\ Finish([tool |-> "list_databases"], list_databases(fs))

OptimizeDatabase ==
    /\ ncalls < MaxCalls
    /\ \E database \in DbNames, now \in Timestamps :
          Finish([tool |-> "optimize_database", database |-> database],
                 optimize_database(fs, database, now))

\* the collector finalizes the connections no frame refers to any more
CollectGarbage ==
    /\ openConns > 0
    /\ openConns' = 0
    /\ UNCHANGED <<fs, response, lastCall, opened, issued, before, ncalls>>
    /\ UNCHANGED concVars

Next ==
    \/ ExecuteSql
    \/ CreateTable
    \/ GetSchema
    \/ BackupDatabase
    \/ ListDatabases
    \/ OptimizeDatabase
    \/ CollectGarbage

Spec == Init /\ [][Next]_vars

(***************************************************************************)
(* SpecStatements: the same tools, execute_sql being called with the       *)
(* statements of StatementRequests.                                        *)
(***************************************************************************)
ExecuteStatement ==
    /\ ncalls < MaxCalls
    /\ \E database \in DbNames, req \in StatementRequests, now \in Timestamps :
          Finish([tool |-> "execute_sql", database |-> database,
                  query |-> req.query, params |-> req.params],
                 execute_sql(fs, database, req.query, req.params, now))

NextStatements ==
    \/ ExecuteStatement
    \/ CreateTable
    \/ GetSchema
    \/ BackupDatabase
    \/ ListDatabases
    \/ OptimizeDatabase
    \/ CollectGarbage

SpecStatements == Init /\ [][NextStatements]_vars

(***************************************************************************)
(* SpecConc.  Two server processes run the gateway on the same sandbox     *)
(* directory.  Inside a process a call still runs without interruption,    *)
(* but the calls of the two processes interleave between the library calls *)
(* (connect, cursor.execute, commit, backup, the with-block exit).  The     *)
(* engine's file locks are the ones of the rollback journal: a connection  *)
(* with a pending change holds the file's write lock until it commits or   *)
(* rolls back, a commit needs the file free of readers, and a statement or *)
(* a commit that finds the lock taken ends, once the busy timeout of       *)
(* sqlite3.connect has run out, with "database is locked".                 *)
(***************************************************************************)
\* the file both processes work on
MainFile == Resolve(get_db_path(<<MainDb>>))

\* a backup destination that names the source itself, from the working directory
SelfPath == data_dir \o <<MainDb>>

\* the backup destinations callers supply; <<>> is "not given"
ConcBackupPaths == {<<>>, SelfPath}

\* the write statements callers send
ConcRequests ==
    { [query |-> CreateT, params |-> <<>>],
      [query |-> InsertOne, params |-> <<"x">>],
      [query |-> InsertOne, params |-> <<"y">>],
      [query |-> InsertDupOrFail, params |-> <<>>] }

SourceFile(req) == Resolve(get_db_path(req.source_db))

BackupFile(req) == Resolve(req.backup_path)

\* q holds the write lock of `file`: its connection has a pending change, or
\* its backup is writing the copy into the file
HoldsWrite(q, file) ==
    \/ callers[q].conn.locked /\ callers[q].conn.file = file
    \/ callers[q].pc = "copying" /\ BackupFile(callers[q].req) = file

\* q holds a read lock of `file`: its backup is reading the file
HoldsRead(q, file) ==
    callers[q].pc = "copying" /\ SourceFile(callers[q].req) = file

\* the statement with outcome x, run on `tables`, writes or would write
Writes(x, tables) ==
    \/ x.dml /\ (x.ok \/ x.error_type = "IntegrityError")
    \/ x.tables # tables

\* the engine refuses p's statement the lock it needs: the write lock is
\* with another process, or the statement writes through at once and
\* another process reads the file
Refused(p, file, x, tables) ==
    /\ Writes(x, tables)
    /\ \/ \E q \in Callers \ {p} : HoldsWrite(q, file)
       \/ ~x.dml /\ \E q \in Callers \ {p} : HoldsRead(q, file)

Locked(tables) == EngineError(tables, "OperationalError", "database is locked")

\* variant of ExceptClause that hands the statement to the engine again
ExceptClause_Retry == "execute"

\* where an sqlite3.Error raised in the with block continues: at the
\* except clause, after the with block's exit
ExceptClause == "except"

\* the processes after p's step has made p's record `rec` and left the file
\* system `fsys`: every backup call under way has seen what its source holds
After(p, rec, fsys) ==
    [q \in Callers |->
        LET c == IF q = p THEN rec ELSE callers[q]
        IN IF c.pc \in {"backup", "copying"}
           THEN [c EXCEPT !.seen = @ \cup {fsys[SourceFile(c.req)].tables}]
           ELSE c]

\* the calls begun so far
Started ==
    LET n(p) == callers[p].ops + (IF callers[p].pc = "idle" THEN 0 ELSE 1)
    IN n("A") + n("B")

\* the statement of p's call joins the statements written to the file
Applied(p) ==
    Append(applied, [caller |-> p, op |-> callers[p].ops + 1,
                     query |-> callers[p].req.query, params |-> callers[p].req.params])

\* execute_sql up to the call of execute_query: the allow-list check passes
ExecCall(p) ==
    /\ callers[p].pc = "idle"
    /\ Started < MaxOps
    /\ \E r \in ConcRequests :
          /\ InList(query_tokens(r.query)[1], allowed_operations)
          /\ callers' = After(p, [callers[p] EXCEPT
                                     !.pc = "connect",
                                     !.req = [tool |-> "execute_sql", database |-> <<MainDb>>,
                                              query |-> r.query, params |-> r.params],
                                     !.attempts = 0], fs)
    /\ UNCHANGED <<fs, openConns, applied>>
    /\ UNCHANGED seqVars

\* sqlite3.connect in execute_query
ExecConnect(p) ==
    /\ callers[p].pc = "connect"
    /\ LET c == connect(fs, get_db_path(callers[p].req.database))
       IN /\ c.ok
          /\ fs' = c.fs
          /\ callers' = After(p, [callers[p] EXCEPT
                                     !.pc = "execute",
                                     !.conn = [file |-> c.file, tables |-> c.fs[c.file].tables,
                                               in_transaction |-> FALSE, locked |-> FALSE]],
                              c.fs)
    /\ UNCHANGED <<openConns, applied>>
    /\ UNCHANGED seqVars

\* cursor.execute gets the lock it needs and runs the statement: a DML
\* statement leaves its change pending in the connection, any other
\* statement writes through; an engine error goes to the except clause
ExecStatement(p) ==
    /\ callers[p].pc = "execute"
    /\ LET file == callers[p].conn.file
           tables == fs[file].tables
           x == cursor_execute(tables, callers[p].req.query, callers[p].req.params)
           fs1 == statement_effect(fs, file, x)
       IN /\ ~Refused(p, file, x, tables)
          /\ fs' = fs1
          /\ applied' = IF x.ok /\ ~x.dml /\ x.tables # tables THEN Applied(p) ELSE applied
          /\ callers' = After(p, [callers[p] EXCEPT
                                     !.pc = IF x.ok THEN "commit" ELSE ExceptClause,
                                     !.attempts = @ + 1,
                                     !.conn = [file |-> file, tables |-> x.tables,
                                               in_transaction |-> x.dml,
                                               locked |-> x.dml /\ Writes(x, tables)],
                                     !.result = IF x.ok THEN write_result(x.rowcount)
                                                ELSE Failure(x)],
                              fs1)
    /\ UNCHANGED openConns
    /\ UNCHANGED seqVars

\* cursor.execute finds the lock taken and the busy timeout runs out
ExecBusy(p) ==
    /\ callers[p].pc = "execute"
    /\ LET file == callers[p].conn.file
           tables == fs[file].tables
           x == cursor_execute(tables, callers[p].req.query, callers[p].req.params)
       IN /\ Refused(p, file, x, tables)
          /\ callers' = After(p, [callers[p] EXCEPT
                                     !.pc = ExceptClause,
                                     !.attempts = @ + 1,
                                     !.conn.in_transaction = x.dml,
                                     !.result = Failure(Locked(tables))],
                              fs)
    /\ UNCHANGED <<fs, openConns, applied>>
    /\ UNCHANGED seqVars

\* conn.commit() and the return of the success response; the connection
\* stays open
ExecCommit(p) ==
    /\ callers[p].pc = "commit"
    /\ LET conn == callers[p].conn
           fs1 == connection_commit(fs, conn)
       IN /\ ~(conn.locked /\ \E q \in Callers \ {p} : HoldsRead(q, conn.file))
          /\ fs' = fs1
          /\ applied' = IF conn.in_transaction THEN Applied(p) ELSE applied
          /\ \E now \in Timestamps :
                callers' = After(p, [callers[p] EXCEPT
                                        !.pc = "idle", !.conn = NoConn, !.ops = @ + 1,
                                        !.result = [database |-> callers[p].req.database,
                                                    timestamp |-> now.iso] @@ @],
                                 fs1)
    /\ openConns' = openConns + 1
    /\ UNCHANGED seqVars

\* conn.commit() finds the file being read and the busy timeout runs out
ExecCommitBusy(p) ==
    /\ callers[p].pc = "commit"
    /\ LET conn == callers[p].conn
       IN /\ conn.locked
          /\ \E q \in Callers \ {p} : HoldsRead(q, conn.file)
          /\ callers' = After(p, [callers[p] EXCEPT
                                     !.pc = ExceptClause,
                                     !.result = Failure(Locked(conn.tables))],
                              fs)
    /\ UNCHANGED <<fs, openConns, applied>>
    /\ UNCHANGED seqVars

\* the with block's exit on the exception rolls back, the except clause
\* returns the failure response; the connection stays open
ExecExcept(p) ==
    /\ callers[p].pc = "except"
    /\ LET fs1 == connection_rollback(fs, callers[p].conn)
       IN /\ fs' = fs1
          /\ \E now \in Timestamps :
                callers' = After(p, [callers[p] EXCEPT
                                        !.pc = "idle", !.conn = NoConn, !.ops = @ + 1,
                                        !.result = [database |-> callers[p].req.database,
                                                    timestamp |-> now.iso] @@ @],
                                 fs1)
    /\ openConns' = openConns + 1
    /\ UNCHANGED applied
    /\ UNCHANGED seqVars

\* backup_database up to the connects: the existence check, the destination
BackupCall(p) ==
    /\ callers[p].pc = "idle"
    /\ Started < MaxOps
    /\ \E backup_path_arg \in ConcBackupPaths, now \in Timestamps :
          LET source_path == get_db_path(<<MainDb>>)
              found == Exists(fs, source_path)
              req == [tool |-> "backup_database", source_db |-> <<MainDb>>,
                      found |-> found,
                      backup_path |-> IF backup_path_arg = <<>>
                                      THEN DefaultBackupPath(source_path, now)
                                      ELSE backup_path_arg]
              result == [success |-> FALSE,
                         error |-> <<"Source database", "does not exist">>]
          IN IF found
             THEN callers' = After(p, [callers[p] EXCEPT
                                          !.pc = "backup_connect", !.req = req,
                                          !.seen = {}, !.copy = NoTables,
                                          !.stuck = FALSE], fs)
             ELSE callers' = After(p, [callers[p] EXCEPT
                                          !.req = req, !.result = result,
                                          !.ops = @ + 1], fs)
    /\ UNCHANGED <<fs, openConns, applied>>
    /\ UNCHANGED seqVars

\* the two sqlite3.connect calls of backup_database
BackupConnect(p) ==
    /\ callers[p].pc = "backup_connect"
    /\ LET source_conn == connect(fs, get_db_path(callers[p].req.source_db))
           backup_conn == connect(source_conn.fs, callers[p].req.backup_path)
       IN /\ source_conn.ok
          /\ backup_conn.ok
          /\ fs' = backup_conn.fs
          /\ callers' = After(p, [callers[p] EXCEPT !.pc = "backup"], backup_conn.fs)
    /\ UNCHANGED <<openConns, applied>>
    /\ UNCHANGED seqVars

\* source_conn.backup: a round of the copy starts; it takes the write lock
\* of the destination and a read lock of the source
BackupBegin(p) ==
    /\ callers[p].pc = "backup"
    /\ ~\E q \in Callers \ {p} : HoldsWrite(q, BackupFile(callers[p].req))
    /\ callers' = After(p, [callers[p] EXCEPT !.pc = "copying"], fs)
    /\ UNCHANGED <<fs, openConns, applied>>
    /\ UNCHANGED seqVars

\* source_conn.backup: the destination is locked; the call sleeps and tries
\* again
BackupSleep(p) ==
    /\ callers[p].pc = "backup"
    /\ \E q \in Callers \ {p} : HoldsWrite(q, BackupFile(callers[p].req))
    /\ callers' = After(p, callers[p], fs)
    /\ UNCHANGED <<fs, openConns, applied>>
    /\ UNCHANGED seqVars

\* source_conn.backup: the round ends; all pages are copied, the copy is
\* committed, which needs the destination free of readers, the two
\* connections are closed and the success response returns
BackupFinish(p) ==
    /\ callers[p].pc = "copying"
    /\ LET req == callers[p].req
           fs1 == connection_backup(fs, SourceFile(req), BackupFile(req))
           result == [success |-> TRUE,
                      message |-> "Database backed up successfully",
                      backup_path |-> req.backup_path]
       IN /\ ~\E q \in Callers : HoldsRead(q, BackupFile(req))
          /\ fs' = fs1
          /\ \E now \in Timestamps :
                callers' = After(p, [callers[p] EXCEPT
                                        !.pc = "idle", !.ops = @ + 1,
                                        !.result = [timestamp |-> now.iso] @@ result,
                                        !.copy = fs[SourceFile(req)].tables],
                                 fs1)
    /\ UNCHANGED <<openConns, applied>>
    /\ UNCHANGED seqVars

\* source_conn.backup: the copy cannot be committed, for the destination is
\* being read; the round's locks are given up, the call sleeps and tries
\* again.  When the reader is the call's own source connection (the
\* destination is the source), no later round fares better.
BackupRetry(p) ==
    /\ callers[p].pc = "copying"
    /\ \E q \in Callers : HoldsRead(q, BackupFile(callers[p].req))
    /\ callers' = After(p, [callers[p] EXCEPT
                               !.pc = "backup",
                               !.stuck = ~\E q \in Callers \ {p} :
                                             HoldsRead(q, BackupFile(callers[p].req))],
                        fs)
    /\ UNCHANGED <<fs, openConns, applied>>
    /\ UNCHANGED seqVars

NextConc ==
    \/ \E p \in Callers : ExecCall(p)
    \/ \E p \in Callers : ExecConnect(p)
    \/ \E p \in Callers : ExecStatement(p)
    \/ \E p \in Callers : ExecBusy(p)
    \/ \E p \in Callers : ExecCommit(p)
    \/ \E p \in Callers : ExecCommitBusy(p)
    \/ \E p \in Callers : ExecExcept(p)
    \/ \E p \in Callers : BackupCall(p)
    \/ \E p \in Callers : BackupConnect(p)
    \/ \E p \in Callers : BackupBegin(p)
    \/ \E p \in Callers : BackupSleep(p)
    \/ \E p \in Callers : BackupFinish(p)
    \/ \E p \in Callers : BackupRetry(p)

SpecConc == Init /\ [][NextConc]_vars

(***************************************************************************)
(* Properties.                                                             *)
(***************************************************************************)
\* the allow-list as the specification states it
AllowList == {"SELECT", "INSERT", "UPDATE", "DELETE", "CREATE", "DROP", "ALTER"}

\* the file the last call's database name resolves to
LastFile ==
    Resolve(get_db_path(IF lastCall.tool = "backup_database" THEN lastCall.source_db
                        ELSE lastCall.database))

LastTokens == query_tokens(lastCall.query)

Succeeded == ~Raised(response) /\ response.success

Failed == ~Raised(response) /\ ~response.success

\* C1: a statement whose first whitespace-delimited token, upper-cased, is
\* not in the allow-list is answered by execute_sql with success=false and
\* the "Operation <token> not allowed" error, no connection is opened, no
\* statement reaches the engine and no file changes or comes into being.
C1_DisallowedRejected ==
    (/\ lastCall.tool = "execute_sql"
     /\ LastTokens # <<>>
     /\ LastTokens[1] \notin AllowList)
    => /\ Failed
       /\ response.error = <<"Operation", LastTokens[1], "not allowed">>
       /\ opened = 0
       /\ issued = <<>>
       /\ fs = before

C1_Witness ==
    /\ lastCall.tool = "execute_sql"
    /\ lastCall.query = <<"vacuum">>
    /\ Failed
    /\ \E f \in DOMAIN fs : fs[f].present

\* C2: a successful SELECT through execute_sql reports in row_count the
\* number of rows the query produces, returns in data the first
\* min(row_count, max_results) of them in engine order, and sets truncated
\* exactly when row_count exceeds max_results.
C2_SelectCapped ==
    (/\ lastCall.tool = "execute_sql"
     /\ Succeeded
     /\ LastTokens[1] = "SELECT")
    => LET produced == cursor_execute(before[LastFile].tables, lastCall.query,
                                      lastCall.params).rows
       IN /\ response.row_count = Len(produced)
          /\ Len(response.data) = Min(response.row_count, max_results)
          /\ response.data = SubSeq(produced, 1, Len(response.data))
          /\ response.truncated = (response.row_count > max_results)

C2_Witness ==
    /\ lastCall.tool = "execute_sql"
    /\ Succeeded
    /\ LastTokens[1] = "SELECT"
    /\ response.truncated
    /\ response.row_count = max_results + 1
    /\ Len(response.data) = max_results

\* C3: when execute_sql returns success for an allowed statement other than
\* SELECT, the database file holds the statement's effect, and a SELECT sent
\* afterwards on a new connection sees it: after INSERT INTO t (v) VALUES (?)
\* with one bind value, rows_affected is 1 and SELECT * FROM t returns one
\* row more, the last one carrying the value; on the table made by CREATE
\* TABLE t (id INTEGER PRIMARY KEY, v TEXT) while it was empty the answer is
\* exactly that row with id 1, row_count=1 and truncated=false.
C3_WriteThenRead ==
    (/\ lastCall.tool = "execute_sql"
     /\ Succeeded
     /\ LastTokens[1] \in AllowList \ {"SELECT"})
    => /\ fs[LastFile].present
       /\ fs[LastFile].tables =
            cursor_execute(before[LastFile].tables, lastCall.query, lastCall.params).tables
       /\ lastCall.query = InsertOne =>
            LET was == before[LastFile].tables["t"]
                read == execute_sql(fs, lastCall.database, SelectAll, <<>>,
                                    CHOOSE now \in Timestamps : TRUE).result
            IN /\ response.rows_affected = 1
               /\ read.success
               /\ read.row_count = Len(was.rows) + 1
               /\ read.row_count <= max_results =>
                    /\ ~read.truncated
                    /\ read.data[read.row_count]["v"] = lastCall.params[1]
                    /\ SubSeq(read.data, 1, Len(was.rows)) = was.rows
               /\ (was.rows = <<>> /\ was.cols = fs[LastFile].tables["t"].cols
                     /\ AliasNames(was.cols) = {"id"} /\ ColNames(was.cols) = {"id", "v"}) =>
                    read.data = <<[id |-> 1, v |-> lastCall.params[1]]>>

C3_Witness ==
    /\ lastCall.tool = "execute_sql"
    /\ lastCall.query = InsertOne
    /\ Succeeded
    /\ response.rows_affected = 1
    /\ before[LastFile].tables["t"].rows = <<>>
    /\ fs[LastFile].tables["t"].rows = <<[id |-> 1, v |-> "x"]>>

\* C4: every call returns a structured response with a boolean success
\* field; no exception reaches the caller.
C4_AlwaysStructured ==
    /\ ~Raised(response)
    /\ response.success \in BOOLEAN

\* C5: when a call has returned, every connection it opened is closed: the
\* component holds no open connection between calls.
C5_NoOpenConnection == openConns = 0

\* C6: optimize_database reports the VACUUM outcome and then the ANALYZE
\* outcome, and its success flag is true only if both succeeded.
C6_OptimizeSuccess ==
    lastCall.tool = "optimize_database"
    => /\ ~Raised(response)
       /\ Len(response.operations) = 2
       /\ response.operations[1].operation = "VACUUM"
       /\ response.operations[2].operation = "ANALYZE"
       /\ response.success =>
            /\ response.operations[1].result.success
            /\ response.operations[2].result.success

\* C7: the path resolved for a database name and opened lies under the
\* sandbox directory, and so does every database or backup file that exists.
C7_Sandboxed ==
    /\ opened > 0 => UnderDataDir(LastFile)
    /\ \A f \in DOMAIN fs : fs[f].present => UnderDataDir(f)

\* C8 as stated: every statement execute_sql, create_table or
\* optimize_database hands to the engine has its leading keyword in the
\* allow-list.
C8_OnlyAllowListedReachEngine ==
    lastCall.tool \in {"execute_sql", "create_table", "optimize_database"}
    => \A i \in 1..Len(issued) : query_tokens(issued[i].query)[1] \in AllowList

\* C8 as amended: every statement execute_sql or create_table hands to the
\* engine has its leading keyword in the allow-list (create_table's is
\* always CREATE); optimize_database hands over nothing but its two fixed
\* statements VACUUM and ANALYZE, in that order, without the check.
C8_AllowListExceptOptimize ==
    /\ lastCall.tool = "execute_sql"
         => \A i \in 1..Len(issued) : query_tokens(issued[i].query)[1] \in AllowList
    /\ lastCall.tool = "create_table"
         => \A i \in 1..Len(issued) : query_tokens(issued[i].query)[1] = "CREATE"
    /\ lastCall.tool = "optimize_database"
         => \/ issued = <<>>
            \/ /\ Len(issued) = 2
               /\ issued[1].query = <<"VACUUM">>
               /\ issued[2].query = <<"ANALYZE">>

C8_Witness ==
    /\ lastCall.tool = "optimize_database"
    /\ Len(issued) = 2
    /\ issued[1].file = Resolve(get_db_path(<<MainDb>>))
    /\ fs[issued[1].file].tables # NoTables

\* C9: get_schema and backup_database on a database whose file does not
\* exist answer success=false with the "does not exist" error, open no
\* connection and create no file.
C9_MissingDatabaseNotFound ==
    (/\ lastCall.tool \in {"get_schema", "backup_database"}
     /\ ~before[LastFile].present)
    => /\ Failed
       /\ response.error[Len(response.error)] = "does not exist"
       /\ opened = 0
       /\ fs = before

C9_Witness ==
    /\ lastCall.tool = "backup_database"
    /\ ~before[LastFile].present
    /\ Failed
    /\ lastCall.backup_path # <<>>
    /\ \E f \in DOMAIN fs : fs[f].present

\* C10: a SELECT through execute_sql on a database whose file does not
\* exist fails, while CREATE TABLE on such a database (in an existing
\* directory) succeeds and leaves the file in existence.
C10_ReadOfMissingFails ==
    (/\ lastCall.tool = "execute_sql"
     /\ LastTokens # <<>>
     /\ ~before[LastFile].present
     /\ ParentDir(LastFile) \in Dirs)
    => /\ LastTokens[1] = "SELECT" => Failed
       /\ lastCall.query = CreateT => (Succeeded /\ fs[LastFile].present)

\* C11: get_schema on a database that execute_sql and create_table calls
\* have built answers success with a tables mapping that holds exactly the
\* matching tables (every table but sqlite_sequence when no table_name is
\* given, the named table alone when it exists, no table when it does not);
\* each table's row_count is the number of rows it holds and its column
\* descriptors follow the declaration order with primary_key set on exactly
\* the primary-key columns; an empty table (id INTEGER PRIMARY KEY, name
\* TEXT) gives two columns, id flagged, no index and row_count 0.
C11_SchemaReflectsState ==
    (/\ lastCall.tool = "get_schema"
     /\ before[LastFile].present
     /\ StatTable \notin DOMAIN fs[LastFile].tables)
    => LET tables == fs[LastFile].tables
           asked == lastCall.table_name
           matching == IF asked = "" THEN DOMAIN tables \ {"sqlite_sequence"}
                       ELSE DOMAIN tables \cap {asked}
       IN /\ Succeeded
          /\ DOMAIN response.tables = matching
          /\ \A n \in matching :
                LET got == response.tables[n]
                    cols == tables[n].cols
                IN /\ got.row_count = Len(tables[n].rows)
                   /\ Len(got.columns) = Len(cols)
                   /\ \A i \in 1..Len(cols) :
                         /\ got.columns[i].name = cols[i].name
                         /\ got.columns[i].type = cols[i].type
                         /\ got.columns[i].primary_key = cols[i].pk
                   /\ (cols = <<[name |-> "id", type |-> "INTEGER", pk |-> TRUE],
                                [name |-> "name", type |-> "TEXT", pk |-> FALSE]>>
                         /\ tables[n].rows = <<>>)
                        => /\ Len(got.columns) = 2
                           /\ got.columns[1].primary_key
                           /\ ~got.columns[2].primary_key
                           /\ got.indexes = <<>>
                           /\ got.row_count = 0

\* the files list_databases is to report: those that exist directly in the
\* sandbox directory and whose name ends in .db
SandboxDatabases ==
    {f \in DOMAIN fs :
        fs[f].present /\ ParentDir(f) = Resolve(data_dir) /\ f[Len(f)][Len(f[Len(f)])] = ".db"}

\* C13: list_databases answers success with count equal to the length of
\* its list, and the list holds every .db file of the sandbox directory
\* exactly once and nothing else: nothing for an empty sandbox, main.db once
\* when a call has created it, a default-destination backup as a further
\* entry.
C13_ListsSandboxDatabases ==
    lastCall.tool = "list_databases"
    => /\ Succeeded
       /\ response.count = Len(response.databases)
       /\ \A f \in SandboxDatabases :
             Cardinality({i \in 1..Len(response.databases) :
                             response.databases[i].path = f}) = 1
       /\ \A i \in 1..Len(response.databases) :
             /\ response.databases[i].path \in SandboxDatabases
             /\ response.databases[i].name =
                  response.databases[i].path[Len(response.databases[i].path)]
       /\ SandboxDatabases = {} => (response.count = 0 /\ response.databases = <<>>)

C13_Witness ==
    /\ lastCall.tool = "list_databases"
    /\ response.count = 2
    /\ \E i \in 1..2 : response.databases[i].name = MainDb
    /\ \E i \in 1..2, now \in Timestamps :
          response.databases[i].path =
             Resolve(DefaultBackupPath(get_db_path(<<MainDb>>), now))

\* C14: an execute_sql call whose write statement the engine ends with an
\* error answers a structured failure that carries the engine's message and
\* error type, and every database holds what it held before the call:
\* nothing the statement had changed before the error is committed.
C14_FailedWriteLeavesNoTrace ==
    (/\ lastCall.tool = "execute_sql"
     /\ LastTokens # <<>>
     /\ LastTokens[1] \in AllowList \ {"SELECT"}
     /\ ParentDir(LastFile) \in Dirs
     /\ ~cursor_execute(before[LastFile].tables, lastCall.query, lastCall.params).ok)
    => LET x == cursor_execute(before[LastFile].tables, lastCall.query, lastCall.params)
       IN /\ Failed
          /\ response.error = <<x.error>>
          /\ response.error_type = x.error_type
          /\ \A f \in DOMAIN fs : fs[f].tables = before[f].tables

C14_Witness ==
    /\ lastCall.tool = "execute_sql"
    /\ lastCall.query = InsertDupOrFail
    /\ Failed
    /\ response.error_type = "IntegrityError"
    /\ cursor_execute(before[LastFile].tables, lastCall.query, lastCall.params).tables["t"].rows
         = <<[id |-> 1, v |-> "a"]>>
    /\ fs[LastFile].tables["t"].rows = <<>>

\* C12: a backup_database call on an existing database returns success with
\* the destination path, and what it wrote to the destination is what the
\* source held at one moment of the call, whatever the other process wrote
\* meanwhile; the call is never left waiting for a lock of its own.
C12_BackupConsistent ==
    \A p \in Callers :
        LET c == callers[p]
        IN /\ ~c.stuck
           /\ (c.pc = "idle" /\ c.req.tool = "backup_database" /\ c.req.found)
                => /\ c.result.success
                   /\ Resolve(c.result.backup_path) = BackupFile(c.req)
                   /\ c.copy \in c.seen

\* the tables that running the statements one after the other, each to its
\* end, leaves, and whether each of them succeeded
RECURSIVE Replay(_, _)
Replay(tables, stmts) ==
    IF stmts = <<>> THEN [tables |-> tables, ok |-> TRUE]
    ELSE LET x == cursor_execute(tables, stmts[1].query, stmts[1].params)
         IN IF x.ok THEN Replay(x.tables, Tail(stmts))
            ELSE [tables |-> tables, ok |-> FALSE]

\* the entries of `applied` that the last call of p made
AppliedBy(p) ==
    {j \in 1..Len(applied) : applied[j].caller = p /\ applied[j].op = callers[p].ops}

\* p's last call was an execute_sql call that the engine refused the lock
BusyFailure(p) ==
    /\ callers[p].pc = "idle"
    /\ callers[p].req.tool = "execute_sql"
    /\ ~callers[p].result.success
    /\ callers[p].result.error = <<"database is locked">>

C15_EitherCommittedOrNoEffect ==
    /\ \A p \in Callers : callers[p].attempts <= 1
    /\ Replay(NoTables, applied).ok
    /\ fs[MainFile].tables = Replay(NoTables, applied).tables
    /\ \A p \in Callers :
          (callers[p].pc = "idle" /\ callers[p].req.tool = "execute_sql")
          => LET res == callers[p].result
             IN /\ callers[p].attempts = 1
                /\ res.success \in BOOLEAN
                /\ res.success => Cardinality(AppliedBy(p)) = 1
                /\ ~res.success => /\ AppliedBy(p) = {}
                                   /\ Len(res.error) = 1
                                   /\ res.error_type \in {"OperationalError", "IntegrityError",
                                                          "ProgrammingError"}
                /\ BusyFailure(p) => res.error_type = "OperationalError"

\* a call that holds the write lock and is about to commit is kept from it
\* only by a backup that reads the file, never by another write call
C15_HolderCommits ==
    \A p \in Callers :
        (callers[p].pc = "commit" /\ callers'[p].pc # "commit")
        => \/ callers'[p].pc = "idle" /\ callers'[p].result.success
           \/ \E q \in Callers \ {p} : callers[q].req.tool = "backup_database"

\* C15: when two execute_sql calls write to the same file and the engine
\* refuses one of them the lock, that call has handed its statement to the
\* engine once, returns a structured failure and leaves no change, while the
\* call that holds the lock commits; at all times the file holds what the
\* statements of the successful calls give when run one after the other, so
\* each write call is committed as a whole or fails without effect.
C15_BusyWriteFailsOnce ==
    [](C15_EitherCommittedOrNoEffect) /\ [][C15_HolderCommits]_vars

C15_Witness ==
    \E p \in Callers : \E q \in Callers \ {p} :
        /\ BusyFailure(q)
        /\ callers[q].attempts = 1
        /\ callers[q].req.query = InsertOne
        /\ callers[p].pc = "idle"
        /\ callers[p].req.query = InsertOne
        /\ callers[p].result.success
        /\ fs[MainFile].tables["t"].rows = <<[id |-> 1, v |-> callers[p].req.params[1]]>>

====
